---------------------------- MODULE Spec2Model ----------------------------
(***************************************************************************)
(* Zone scoring and ranking engine of openplaces                           *)
(* (backend/app/services/recommendations.py, RecommendationsService).      *)
(*                                                                         *)
(* Numbers.  Python floats are modelled exactly:                           *)
(*   - an unrounded score is a rational [n |-> numerator, d |-> denom]     *)
(*     in points;                                                          *)
(*   - a score rounded with round(x, 1) is an integer number of tenths;    *)
(*   - a distance is an integer number of micro-miles, and                 *)
(*     round(distance, 2) an integer number of hundredths of a mile.       *)
(* Strings the code parses are modelled by what split() yields: a date is  *)
(* the tuple of its "-"-separated fields, a time the tuple of its          *)
(* ":"-separated fields, a range "HH:MM-HH:MM" the tuple of its            *)
(* "-"-separated parts; a field int() rejects is NaN.                      *)
(* Optional values are sequences of length at most one (None is << >>).    *)
(*                                                                         *)
(* Zone provider.  score_zones takes its zones from self.zones_service     *)
(* (line 92).  ZonesService.get_all_zones is a coroutine function          *)
(* (zones.py 245) that line 92 calls without awaiting it; the engine is    *)
(* modelled behind a provider that hands over its list, as the             *)
(* repository's tests use it (tests/test_recommendations.py 71, 388).      *)
(* The provider's loading and caching are outside the engine.              *)
(*                                                                         *)
(* Also modelled: the routes POST /score and POST /top                     *)
(* (backend/app/routes/recommendations.py) over the engine, and the        *)
(* in-memory RateLimiter (backend/app/middleware/rate_limiter.py), whose   *)
(* clock counts whole seconds from its construction.                       *)
(***************************************************************************)
EXTENDS Integers, Sequences, FiniteSets, TLC

VARIABLES
    zones,          \* the zone list score_zones iterates over (lines 92, 95)
    event_data,     \* the EventData of the current call
    pc,             \* position of the current score_zones call
    idx,            \* index of the next zone of the loop of line 95
    scored_zones,   \* the local list scored_zones (the result once pc = "returned")
    error,          \* the exception that ended the call, "" if none
    calls,          \* number of score_zones calls started so far
    first_call,     \* history: inputs and outcome of the first completed call
    fn,             \* pure-function frame: the function applied
    args,           \* pure-function frame: its arguments
    ret,            \* pure-function frame: its outcome
    requests,       \* RateLimiter.requests: key -> list of (timestamp, count)
    last_cleanup,   \* RateLimiter.last_cleanup, in seconds
    current_time,   \* the clock time.time() last returned, in seconds
    answers         \* history: the check_rate_limit calls answered so far

vars == <<zones, event_data, pc, idx, scored_zones, error, calls, first_call,
          fn, args, ret, requests, last_cleanup, current_time, answers>>

engineVars == <<zones, event_data, pc, idx, scored_zones, error, calls, first_call>>
frameVars == <<fn, args, ret>>
limiterVars == <<requests, last_cleanup, current_time, answers>>

\* RateLimiter.__init__ (rate_limiter.py 23-27) with the clock at 0: an empty
\* defaultdict, last_cleanup = time.time(); no call answered yet.
LimiterIdle ==
    /\ requests = << >>
    /\ last_cleanup = 0
    /\ current_time = 0
    /\ answers = << >>

-----------------------------------------------------------------------------
(* Bounds of the model *)

MaxZones == 3
MaxCalls == 2
MaxAudience == 3
MaxSignals == 1
MaxWindows == 2
MaxDwell == 65
MaxLimit == 4
MaxChecks == 4

-----------------------------------------------------------------------------
(* Generic helpers *)

None == << >>
Some(x) == <<x>>

SeqUpTo(S, n) == UNION {[1..k -> S] : k \in 0..n}

InjSeqUpTo(S, n) ==
    {s \in SeqUpTo(S, n) : \A i, j \in 1..Len(s) : i # j => s[i] # s[j]}

Range(s) == {s[i] : i \in 1..Len(s)}

Max2(a, b) == IF a >= b THEN a ELSE b

Abs(x) == IF x < 0 THEN 0 - x ELSE x

\* round(n/d * scale) to the nearest integer, ties to even, for n >= 0, d > 0:
\* Python's round(x, ndigits) on the exact value.
RoundHalfEven(n, d, scale) ==
    LET q == (n * scale) \div d
        r == (n * scale) % d
    IN  IF 2 * r < d THEN q
        ELSE IF 2 * r > d THEN q + 1
        ELSE IF q % 2 = 0 THEN q ELSE q + 1

Returned(v) == [raised |-> FALSE, value |-> v]
Raised(e) == [raised |-> TRUE, error |-> e]


-----------------------------------------------------------------------------
(* _calculate_audience_match (lines 161-186) *)

\* Variant: every distinct matching tag counted once.
CountDistinctMatches(target_audience, all_zone_signals) ==
    Cardinality(Range(target_audience) \cap Range(all_zone_signals))

\* sum(1 for audience in target_audience if audience in all_zone_signals)
CountMatches(target_audience, all_zone_signals) ==
    Cardinality({i \in 1..Len(target_audience) :
                    target_audience[i] \in Range(all_zone_signals)})

\* Variant: the match ratio scaled to a percentage instead of to 40 points.
AudienceMatchAsPercent(target_audience, zone_audience_signals) ==
    LET all_zone_signals == zone_audience_signals.demographics
                            \o zone_audience_signals.interests
                            \o zone_audience_signals.behaviors
    IN  IF target_audience = << >> THEN [n |-> 0, d |-> 1]
        ELSE IF all_zone_signals = << >> THEN [n |-> 0, d |-> 1]
        ELSE [n |-> Cardinality({i \in 1..Len(target_audience) :
                        target_audience[i] \in Range(all_zone_signals)}) * 100,
              d |-> Len(target_audience)]

\* The unrounded score, as a rational number of points.
_calculate_audience_match(target_audience, zone_audience_signals) ==
    LET all_zone_signals == zone_audience_signals.demographics
                            \o zone_audience_signals.interests
                            \o zone_audience_signals.behaviors
    IN  IF target_audience = << >> THEN [n |-> 0, d |-> 1]
        ELSE IF all_zone_signals = << >> THEN [n |-> 0, d |-> 1]
        ELSE [n |-> CountMatches(target_audience, all_zone_signals) * 40,
              d |-> Len(target_audience)]

-----------------------------------------------------------------------------
(* _calculate_temporal_alignment (lines 188-251) *)

NaN == -1    \* a field that int() rejects with ValueError

Weekdays == <<"Monday", "Tuesday", "Wednesday", "Thursday", "Friday",
              "Saturday", "Sunday">>

IsLeap(y) == (y % 4 = 0) /\ ((y % 100 # 0) \/ (y % 400 = 0))

DaysInMonth(y, m) ==
    IF m = 2 THEN (IF IsLeap(y) THEN 29 ELSE 28)
    ELSE IF m \in {4, 6, 9, 11} THEN 30 ELSE 31

RECURSIVE DaysBeforeMonth(_, _)
DaysBeforeMonth(y, m) ==
    IF m = 1 THEN 0 ELSE DaysBeforeMonth(y, m - 1) + DaysInMonth(y, m - 1)

\* datetime.fromisoformat(event_date): the date string must have three numeric
\* fields naming a day of the calendar, else ValueError (the digits' padding
\* is not modelled).
DateParses(event_date) ==
    /\ Len(event_date) = 3
    /\ \A i \in 1..3 : event_date[i] # NaN
    /\ event_date[1] \in 1..9999
    /\ event_date[2] \in 1..12
    /\ event_date[3] \in 1..DaysInMonth(event_date[1], event_date[2])

\* event_datetime.strftime("%A"): the proleptic Gregorian ordinal, Monday first.
DateWeekday(event_date) ==
    LET y == event_date[1]
        before == (y - 1) * 365 + ((y - 1) \div 4) - ((y - 1) \div 100)
                  + ((y - 1) \div 400)
        ordinal == before + DaysBeforeMonth(y, event_date[2]) + event_date[3]
    IN  Weekdays[((ordinal + 6) % 7) + 1]

\* int(event_time.split(":")[0]) raises ValueError on a non-numeric first field.
TimeParses(event_time) == event_time[1] # NaN

EventHour(event_time) == event_time[1]

\* Variant: the end hour counts as inside the range.
RangeMatchesClosed(time_range, event_hour) ==
    /\ Len(time_range) = 2
    /\ time_range[1][1] # NaN
    /\ time_range[2][1] # NaN
    /\ time_range[1][1] <= event_hour
    /\ event_hour <= time_range[2][1]

\* One pass of the try block of lines 228-237 over a range: TRUE iff the range
\* splits in two parts at "-", both hours parse and start <= hour < end.
\* A malformed range raises inside the try and is skipped.
RangeMatches(time_range, event_hour) ==
    /\ Len(time_range) = 2
    /\ time_range[1][1] # NaN
    /\ time_range[2][1] # NaN
    /\ time_range[1][1] <= event_hour
    /\ event_hour < time_range[2][1]

TimeMatch(window_times, event_hour) ==
    \E i \in 1..Len(window_times) : RangeMatches(window_times[i], event_hour)

\* Lines 239-247.
WindowScore(window, event_day, event_hour) ==
    LET day_match == event_day \in Range(window.days)
        time_match == TimeMatch(window.times, event_hour)
    IN  IF day_match /\ time_match THEN 30
        ELSE IF day_match THEN 20
        ELSE IF time_match THEN 15
        ELSE 5

\* Variant: the score of the last window replaces the best one.
LastWindowAlignment(optimal_windows, k, event_day, event_hour) ==
    IF k = 0 THEN 0 ELSE WindowScore(optimal_windows[k], event_day, event_hour)

\* The loop of lines 215-249: best_alignment_score over the first k windows.
RECURSIVE BestAlignment(_, _, _, _)
BestAlignment(optimal_windows, k, event_day, event_hour) ==
    IF k = 0 THEN 0
    ELSE Max2(BestAlignment(optimal_windows, k - 1, event_day, event_hour),
              WindowScore(optimal_windows[k], event_day, event_hour))

\* Variant: the date and the time are parsed before the windows are looked at,
\* and a date that does not parse scores nothing.
TemporalAlignmentParsingFirst(event_date, event_time, event_type, timing_windows) ==
    LET optimal_windows == timing_windows.optimal
    IN  IF ~DateParses(event_date) THEN 0
        ELSE IF ~TimeParses(event_time) THEN 15
        ELSE IF optimal_windows = << >> THEN 15
        ELSE BestAlignment(optimal_windows, Len(optimal_windows),
                           DateWeekday(event_date), EventHour(event_time))

\* Variant: a concert is taken to fit every zone's timing.
TemporalAlignmentByEventType(event_date, event_time, event_type, timing_windows) ==
    LET optimal_windows == timing_windows.optimal
    IN  IF event_type = "concert" THEN 30
        ELSE IF optimal_windows = << >> THEN 15
        ELSE IF ~DateParses(event_date) THEN 15
        ELSE IF ~TimeParses(event_time) THEN 15
        ELSE BestAlignment(optimal_windows, Len(optimal_windows),
                           DateWeekday(event_date), EventHour(event_time))

\* The score in points.  event_type is accepted and not read.
_calculate_temporal_alignment(event_date, event_time, event_type, timing_windows) ==
    LET optimal_windows == timing_windows.optimal
    IN  IF optimal_windows = << >> THEN 15
        ELSE IF ~DateParses(event_date) THEN 15
        ELSE IF ~TimeParses(event_time) THEN 15
        ELSE BestAlignment(optimal_windows, Len(optimal_windows),
                           DateWeekday(event_date), EventHour(event_time))

-----------------------------------------------------------------------------
(* _calculate_distance, _calculate_distance_score, _calculate_dwell_time_score *)

\* Coordinates are in thousandths of a degree.  For two points on one meridian
\* the Haversine formula of lines 264-275 gives R * |lat2 - lat1| (in radians):
\* 3958.8 * pi / 180 miles per degree, 69094 micro-miles per thousandth.
MicroMilesPerMilliDegree == 69094

\* The distance in micro-miles; the model keeps venue and zones on one meridian.
_calculate_distance(lat1, lon1, lat2, lon2) ==
    MicroMilesPerMilliDegree * Abs(lat2 - lat1)

\* Variant: the upper bound of every band is exclusive.
DistanceScoreExclusiveBounds(distance_miles) ==
    IF distance_miles < 1000000 THEN 20
    ELSE IF distance_miles < 3000000 THEN 15
    ELSE IF distance_miles < 5000000 THEN 10
    ELSE IF distance_miles < 10000000 THEN 5
    ELSE 2

\* Variant: two points lost per whole mile, down to nothing.
DistanceScoreLinear(distance_miles) ==
    IF distance_miles >= 10000000 THEN 0
    ELSE 20 - 2 * (distance_miles \div 1000000)

\* Lines 291-300; the argument is in micro-miles, the result in points.
_calculate_distance_score(distance_miles) ==
    IF distance_miles <= 1000000 THEN 20
    ELSE IF distance_miles <= 3000000 THEN 15
    ELSE IF distance_miles <= 5000000 THEN 10
    ELSE IF distance_miles <= 10000000 THEN 5
    ELSE 2

\* Variant: the lower bound of every step is exclusive.
DwellTimeScoreExclusiveBounds(dwell_time_seconds) ==
    IF dwell_time_seconds > 60 THEN 10
    ELSE IF dwell_time_seconds > 45 THEN 8
    ELSE IF dwell_time_seconds > 30 THEN 6
    ELSE IF dwell_time_seconds > 20 THEN 4
    ELSE 2

\* Lines 314-323.
_calculate_dwell_time_score(dwell_time_seconds) ==
    IF dwell_time_seconds >= 60 THEN 10
    ELSE IF dwell_time_seconds >= 45 THEN 8
    ELSE IF dwell_time_seconds >= 30 THEN 6
    ELSE IF dwell_time_seconds >= 20 THEN 4
    ELSE 2

-----------------------------------------------------------------------------
(* _detect_data_sources (lines 325-385).  A zone name is the sequence of its *)
(* lower-cased words; "keyword in zone_name_lower" is membership of a word.  *)

NameHas(zone, keywords) == Range(zone.name) \cap keywords # {}

_detect_data_sources(zone, event) ==
    LET metro ==
            IF NameHas(zone, {"metro"})
            THEN [name |-> "Metro transit schedules", status |-> "detected",
                  details |-> IF NameHas(zone, {"orange"}) THEN "Orange Line"
                              ELSE IF NameHas(zone, {"blue"}) THEN "Blue/Orange/Silver Lines"
                              ELSE "high confidence"]
            ELSE [name |-> "Metro transit schedules", status |-> "not_detected",
                  details |-> "No direct Metro access"]
        \* hasattr(zone, 'foot_traffic_daily') holds for every Zone: it is a field
        traffic == [name |-> "Arlington Open Data (foot traffic)",
                    status |-> "detected",
                    details |-> "Daily foot traffic patterns monitored"]
        timing == IF Len(zone.timing_windows.optimal) > 0
                  THEN <<[name |-> "Behavioral timing patterns", status |-> "detected",
                          details |-> "Optimal windows identified"]>>
                  ELSE << >>
        permits == [name |-> "Event permits database", status |-> "not_detected",
                    details |-> "No competing events detected"]
    IN  <<metro, traffic>> \o timing \o <<permits>>

-----------------------------------------------------------------------------
(* _generate_reasoning and _get_time_period_behavioral_context (387-486) *)

_get_time_period_behavioral_context(time_period, zone, audience_match) ==
    LET is_transit == NameHas(zone, {"metro", "station", "transit", "ballston",
                                     "rosslyn", "clarendon"})
        is_restaurant == NameHas(zone, {"restaurant", "dining", "cafe", "coffee",
                                        "food"})
        is_retail == NameHas(zone, {"retail", "shopping", "store", "shops"})
    IN  IF time_period = "morning" THEN
            (IF is_transit THEN "commuters heading to work"
             ELSE IF is_restaurant THEN "morning coffee crowd"
             ELSE IF is_retail THEN "early shoppers with time to browse"
             ELSE "morning foot traffic with routine patterns")
        ELSE IF time_period = "lunch" THEN
            (IF is_transit THEN "lunch-hour commuters and office workers"
             ELSE IF is_restaurant THEN "office workers on lunch break"
             ELSE IF is_retail THEN "lunch shoppers taking breaks"
             ELSE "mid-day crowd with flexible schedule")
        ELSE IF time_period = "evening" THEN
            (IF is_transit THEN "commuters heading home"
             ELSE IF is_restaurant THEN "dinner crowd with leisure time"
             ELSE IF is_retail THEN "evening shoppers unwinding"
             ELSE "evening foot traffic with leisure mindset")
        ELSE "strategic timing for target audience behavior patterns"

Clause(kind, text, value) == [kind |-> kind, text |-> text, value |-> value]

\* Variant: three miles still count as a walkable distance.
ReasoningWalkableAtThreeMiles(zone, audience_match, temporal_alignment, distance_miles, dwell_time_seconds, event) ==
    LET time_period == IF event.time_period \in {None, Some("")} THEN "evening"
                       ELSE event.time_period[1]
        time_context == _get_time_period_behavioral_context(time_period, zone,
                                                            audience_match)
        context == IF time_context # "" THEN <<Clause("time", time_context, 0)>>
                   ELSE << >>
        audience ==
            IF audience_match.n >= 32 * audience_match.d
            THEN <<Clause("audience", "excellent audience match", 0)>>
            ELSE IF audience_match.n >= 24 * audience_match.d
            THEN <<Clause("audience", "good audience alignment", 0)>>
            ELSE << >>
        tenths == RoundHalfEven(distance_miles, 1000000, 10)
        distance ==
            IF distance_miles < 1000000
            THEN <<Clause("distance", "very close to venue", tenths)>>
            ELSE IF distance_miles <= 3000000
            THEN <<Clause("distance", "walkable distance", tenths)>>
            ELSE << >>
        dwell ==
            IF dwell_time_seconds >= 45
            THEN <<Clause("dwell", "high dwell time", dwell_time_seconds)>>
            ELSE IF dwell_time_seconds >= 30
            THEN <<Clause("dwell", "moderate dwell time", dwell_time_seconds)>>
            ELSE << >>
    IN  [name |-> zone.name, reasons |-> context \o audience \o distance \o dwell]

\* The reasoning string, as the zone name and the list of its clauses; a clause
\* carries the number its text quotes (miles to one decimal, seconds).
_generate_reasoning(zone, audience_match, temporal_alignment, distance_miles, dwell_time_seconds, event) ==
    LET time_period == IF event.time_period \in {None, Some("")} THEN "evening"
                       ELSE event.time_period[1]
        time_context == _get_time_period_behavioral_context(time_period, zone,
                                                            audience_match)
        context == IF time_context # "" THEN <<Clause("time", time_context, 0)>>
                   ELSE << >>
        audience ==
            IF audience_match.n >= 32 * audience_match.d
            THEN <<Clause("audience", "excellent audience match", 0)>>
            ELSE IF audience_match.n >= 24 * audience_match.d
            THEN <<Clause("audience", "good audience alignment", 0)>>
            ELSE << >>
        tenths == RoundHalfEven(distance_miles, 1000000, 10)
        distance ==
            IF distance_miles < 1000000
            THEN <<Clause("distance", "very close to venue", tenths)>>
            ELSE IF distance_miles < 3000000
            THEN <<Clause("distance", "walkable distance", tenths)>>
            ELSE << >>
        dwell ==
            IF dwell_time_seconds >= 45
            THEN <<Clause("dwell", "high dwell time", dwell_time_seconds)>>
            ELSE IF dwell_time_seconds >= 30
            THEN <<Clause("dwell", "moderate dwell time", dwell_time_seconds)>>
            ELSE << >>
    IN  [name |-> zone.name, reasons |-> context \o audience \o distance \o dwell]

-----------------------------------------------------------------------------
(* _detect_deceptive_hotspot (lines 488-599) *)

\* Variant: a temporal score of exactly 15 counts as misaligned too.
TimingMisalignedAtFifteen(zone, audience_match_score, dwell_time_seconds, temporal_alignment_score) ==
    (IF dwell_time_seconds < 20 THEN <<"low_dwell_time">> ELSE << >>)
    \o (IF audience_match_score.n < 24 * audience_match_score.d
        THEN <<"poor_audience_match">> ELSE << >>)
    \o (IF temporal_alignment_score <= 15 THEN <<"timing_misalignment">>
        ELSE << >>)

\* The category types of the rules that trigger, in the order the code tests
\* them.  Zone declares neither visual_distractions nor advertising_density
\* (zones.py 19-30), so getattr yields the defaults 'medium' and 0.
TriggeredCategories(zone, audience_match_score, dwell_time_seconds, temporal_alignment_score) ==
    LET visual_distractions == "medium"
        advertising_density == 0
    IN  (IF dwell_time_seconds < 20 THEN <<"low_dwell_time">> ELSE << >>)
        \o (IF audience_match_score.n < 24 * audience_match_score.d
            THEN <<"poor_audience_match">> ELSE << >>)
        \o (IF temporal_alignment_score < 15 THEN <<"timing_misalignment">>
            ELSE << >>)
        \o (IF visual_distractions = "high" \/ advertising_density > 10
            THEN <<"visual_noise">> ELSE << >>)

\* The outcome of the call.  getattr(zone, 'foot_traffic_daily', 0) is None for
\* a zone without foot traffic (the field exists, with default None), and
\* None > 1000 raises TypeError (line 506).  WarningCategory is defined and
\* imported nowhere, so building the first category raises NameError
\* (lines 515, 526, 537, 550).  With no category the result is None.
_detect_deceptive_hotspot(zone, audience_match_score, dwell_time_seconds, temporal_alignment_score) ==
    IF zone.foot_traffic_daily = None THEN Raised("TypeError")
    ELSE IF TriggeredCategories(zone, audience_match_score, dwell_time_seconds,
                                temporal_alignment_score) # << >>
    THEN Raised("NameError")
    ELSE Returned(None)

-----------------------------------------------------------------------------
(* _select_alternative_zones (lines 601-667) *)

\* Zone declares the field id, not zone_id (zones.py 19-30): the first
\* sz.zone.zone_id the generator of line 617 evaluates raises AttributeError.
\* Over an empty list nothing is evaluated and the result is [].
_select_alternative_zones(flagged_zone, all_scored_zones, max_alternatives) ==
    IF all_scored_zones # << >> THEN Raised("AttributeError")
    ELSE Returned(<< >>)

-----------------------------------------------------------------------------
(* score_zones (lines 79-159) *)

\* Variant: the dwell-time points left out of the sum.
TotalWithoutDwell(audience_match, temporal_alignment, distance_score_val, dwell_time_score_val) ==
    [n |-> audience_match.n
           + audience_match.d * (temporal_alignment + distance_score_val),
     d |-> audience_match.d]

\* Lines 111-116: the unrounded total, a rational number of points.
WeightedTotal(audience_match, temporal_alignment, distance_score_val, dwell_time_score_val) ==
    [n |-> audience_match.n
           + audience_match.d * (temporal_alignment + distance_score_val
                                 + dwell_time_score_val),
     d |-> audience_match.d]

\* Lines 134-145: the ZoneScore; scores in tenths, distance_miles in hundredths.
ZoneScore(zone, total_score, audience_match, temporal_alignment, distance_score_val, dwell_time_score_val, distance_miles, reasoning, data_sources, risk_warning) ==
    [zone |-> zone,
     total_score |-> RoundHalfEven(total_score.n, total_score.d, 10),
     audience_match_score |-> RoundHalfEven(audience_match.n, audience_match.d, 10),
     temporal_alignment_score |-> RoundHalfEven(temporal_alignment, 1, 10),
     distance_score |-> RoundHalfEven(distance_score_val, 1, 10),
     dwell_time_score |-> RoundHalfEven(dwell_time_score_val, 1, 10),
     distance_miles |-> RoundHalfEven(distance_miles, 1000000, 100),
     reasoning |-> reasoning,
     data_sources |-> data_sources,
     risk_warning |-> risk_warning]

\* The body of the loop of lines 95-146 for one zone: the ZoneScore appended,
\* or the exception _detect_deceptive_hotspot raises before it is built.
ScoreOneZone(zone, event) ==
    LET audience_match ==
            _calculate_audience_match(event.target_audience, zone.audience_signals)
        temporal_alignment ==
            _calculate_temporal_alignment(event.date, event.time, event.event_type,
                                          zone.timing_windows)
        distance_miles ==
            _calculate_distance(event.venue_lat, event.venue_lon,
                                zone.coordinates.lat, zone.coordinates.lon)
        distance_score_val == _calculate_distance_score(distance_miles)
        dwell_time_score_val == _calculate_dwell_time_score(zone.dwell_time_seconds)
        total_score == WeightedTotal(audience_match, temporal_alignment,
                                     distance_score_val, dwell_time_score_val)
        reasoning == _generate_reasoning(zone, audience_match, temporal_alignment,
                                         distance_miles, zone.dwell_time_seconds, event)
        data_sources == _detect_data_sources(zone, event)
        risk == _detect_deceptive_hotspot(zone, audience_match,
                                          zone.dwell_time_seconds, temporal_alignment)
    IN  IF risk.raised THEN risk
        ELSE Returned(ZoneScore(zone, total_score, audience_match, temporal_alignment,
                                distance_score_val, dwell_time_score_val,
                                distance_miles, reasoning, data_sources, risk.value))

\* Variant: an element whose key is already in the list is dropped.
RECURSIVE InsertDescDroppingTies(_, _)
InsertDescDroppingTies(x, s) ==
    IF s = << >> THEN <<x>>
    ELSE IF s[1].total_score = x.total_score THEN s
    ELSE IF s[1].total_score > x.total_score
    THEN <<s[1]>> \o InsertDescDroppingTies(x, Tail(s))
    ELSE <<x>> \o s

\* Variant: the list is left in the order of the loop.
KeepInsertionOrder(s) == s

\* Variant: x goes in front of the elements with an equal key.
RECURSIVE InsertDescBeforeTies(_, _)
InsertDescBeforeTies(x, s) ==
    IF s = << >> THEN <<x>>
    ELSE IF s[1].total_score > x.total_score
    THEN <<s[1]>> \o InsertDescBeforeTies(x, Tail(s))
    ELSE <<x>> \o s

\* list.sort(key=total_score, reverse=True) is stable: x goes behind every
\* element whose key is not smaller.
RECURSIVE InsertDesc(_, _)
InsertDesc(x, s) ==
    IF s = << >> THEN <<x>>
    ELSE IF s[1].total_score >= x.total_score THEN <<s[1]>> \o InsertDesc(x, Tail(s))
    ELSE <<x>> \o s

\* The first k elements of s, sorted.
RECURSIVE SortedFront(_, _)
SortedFront(s, k) ==
    IF k = 0 THEN << >> ELSE InsertDesc(s[k], SortedFront(s, k - 1))

\* Variant: the sort runs before the last zone's score has been appended.
SortBeforeLastAppend(s) ==
    IF s = << >> THEN << >>
    ELSE Append(SortedFront(s, Len(s) - 1), s[Len(s)])

RECURSIVE SortByTotalScore(_)
SortByTotalScore(s) ==
    IF s = << >> THEN << >>
    ELSE InsertDesc(s[Len(s)], SortByTotalScore(SubSeq(s, 1, Len(s) - 1)))

IsFlagged(scored_zone) ==
    scored_zone.risk_warning # None /\ scored_zone.risk_warning[1].is_flagged

\* Variant: the last of several zones is flagged for standing last.
AttachAllFlaggingLast(sorted, k) ==
    IF k < 2 THEN Returned(sorted)
    ELSE Returned([sorted EXCEPT ![k].risk_warning =
             Some([is_flagged |-> TRUE, warning_type |-> "deceptive_hotspot",
                   reason |-> "Lowest score of the list.", severity |-> "medium",
                   details |-> << >>, alternative_zones |-> << >>])])

\* The loop of lines 152-157 over the first k elements of the sorted list.
RECURSIVE AttachAll(_, _)
AttachAll(sorted, k) ==
    IF k = 0 THEN Returned(sorted)
    ELSE LET before == AttachAll(sorted, k - 1)
         IN  IF before.raised THEN before
             ELSE IF ~IsFlagged(before.value[k]) THEN before
             ELSE LET alternatives ==
                          _select_alternative_zones(before.value[k].zone,
                                                    before.value, 3)
                  IN  IF alternatives.raised THEN alternatives
                      ELSE Returned([before.value EXCEPT
                               ![k].risk_warning[1].alternative_zones =
                                   alternatives.value])

\* Variant: the list outlives the call, as an attribute of the service would.
KeepScoredZones(previous) == previous

\* Line 93: scored_zones = [] at the start of every call.
NewScoredZones(previous) == << >>

-----------------------------------------------------------------------------
(* Inputs of the engine: events and zones *)

Thursday == <<2026, 2, 19>>     \* "2026-02-19"
Saturday == <<2026, 2, 21>>     \* "2026-02-21"
NoSuchDay == <<2026, 2, 30>>    \* "2026-02-30"
NotADate == <<NaN>>             \* "tomorrow"

WorkDays == <<"Monday", "Tuesday", "Wednesday", "Thursday", "Friday">>
WeekEnd == <<"Saturday", "Sunday">>

Event(name, date, time, target_audience, event_type, time_period) ==
    [name |-> name, date |-> date, time |-> time,
     venue_lat |-> 38882, venue_lon |-> -77091,
     target_audience |-> target_audience, event_type |-> event_type,
     time_period |-> time_period]

EventPool ==
    { Event("Tech Workshop", Thursday, <<18, 0>>,
            <<"young-professionals", "tech-enthusiasts">>, "workshop",
            Some("evening")),
      Event("Brunch Fair", Saturday, <<12, 0>>,
            <<"young-professionals", "young-professionals", "families">>,
            "community", Some("lunch")),
      Event("Open Mic", NotADate, <<18, 0>>,
            <<"young-professionals">>, "concert", Some("morning")),
      Event("Tech Workshop", Thursday, <<18, 0>>,
            <<"young-professionals", "tech-enthusiasts">>, "concert",
            Some("morning")),
      Event("Open Mic", NotADate, <<18, 0>>,
            <<"young-professionals">>, "workshop", None),
      Event("Flash Sale", Thursday, <<NaN, 0>>, << >>, "sale", None) }

Window(days, times) == [days |-> days, times |-> times, reasoning |-> ""]

HourRange(start_hour, start_minute, end_hour, end_minute) ==
    <<<<start_hour, start_minute>>, <<end_hour, end_minute>>>>

Zone(id, name, lat, demographics, interests, behaviors, optimal, dwell, cost, traffic) ==
    [id |-> id, name |-> name,
     coordinates |-> [lat |-> lat, lon |-> -77091],
     audience_signals |-> [demographics |-> demographics, interests |-> interests,
                           behaviors |-> behaviors],
     timing_windows |-> [optimal |-> optimal],
     dwell_time_seconds |-> dwell, cost_tier |-> cost,
     foot_traffic_daily |-> traffic]

ZonePool ==
    { Zone("ballston-metro", <<"ballston", "metro">>, 38892,
           <<"young-professionals", "25-34">>, <<"tech-enthusiasts">>,
           <<"commuters">>,
           <<Window(WorkDays, <<HourRange(17, 0, 19, 0)>>)>>, 45, "$$", Some(5000)),
      Zone("clarendon-cafe", <<"clarendon", "cafe">>, 38912,
           <<"young-professionals">>, <<"coffee", "tech-enthusiasts">>, << >>,
           <<Window(WeekEnd, <<HourRange(10, 0, 14, 0)>>)>>, 60, "$", Some(800)),
      Zone("courthouse-plaza", <<"courthouse", "plaza">>, 38917,
           <<"young-professionals">>, <<"tech-enthusiasts">>, << >>,
           << >>, 75, "free", Some(1200)),
      Zone("rosslyn-retail", <<"rosslyn", "retail">>, 38942,
           <<"young-professionals">>, <<"tech-enthusiasts">>, << >>,
           << >>, 30, "$$$", None),
      Zone("pentagon-shops", <<"pentagon", "shops">>, 38782,
           <<"families">>, << >>, << >>,
           << >>, 10, "$", Some(9000)),
      Zone("shirlington-library", <<"shirlington", "library">>, 38982,
           <<"young-professionals", "families">>, <<"tech-enthusiasts">>, << >>,
           << >>, 25, "free", Some(300)),
      Zone("reston-station", <<"reston", "station">>, 39032,
           <<"young-professionals">>, <<"tech-enthusiasts">>, << >>,
           <<Window(WorkDays, <<HourRange(9, 0, 11, 0)>>)>>, 30, "$$", Some(2000)) }

-----------------------------------------------------------------------------
(* The engine as a state machine: repeated calls of score_zones *)

NoFrame == fn = "" /\ args = << >> /\ ret = << >>

Init ==
    /\ zones \in InjSeqUpTo(ZonePool, MaxZones)
    /\ event_data = << >>
    /\ pc = "idle"
    /\ idx = 1
    /\ scored_zones = << >>
    /\ error = ""
    /\ calls = 0
    /\ first_call = None
    /\ NoFrame
    /\ LimiterIdle

\* What the caller of a completed call observes.
Outcome(position, result, exception) ==
    [pc |-> position, scored_zones |-> result, error |-> exception]

Remember(outcome) ==
    IF first_call = None THEN Some([event |-> event_data, outcome |-> outcome])
    ELSE first_call

\* Lines 92-93: a call starts.
Call(event) ==
    /\ pc \in {"idle", "returned", "raised"}
    /\ calls < MaxCalls
    /\ event_data' = event
    /\ scored_zones' = NewScoredZones(scored_zones)
    /\ idx' = 1
    /\ pc' = "loop"
    /\ error' = ""
    /\ calls' = calls + 1
    /\ UNCHANGED <<zones, first_call, frameVars, limiterVars>>

\* Lines 95-146: one iteration of the scoring loop.
ScoreZone ==
    /\ pc = "loop"
    /\ idx <= Len(zones)
    /\ LET scored == ScoreOneZone(zones[idx], event_data)
       IN  IF scored.raised
           THEN /\ pc' = "raised"
                /\ error' = scored.error
                /\ scored_zones' = << >>
                /\ idx' = idx
                /\ first_call' = Remember(Outcome("raised", << >>, scored.error))
           ELSE /\ scored_zones' = Append(scored_zones, scored.value)
                /\ idx' = idx + 1
                /\ UNCHANGED <<pc, error, first_call>>
    /\ UNCHANGED <<zones, event_data, calls, frameVars, limiterVars>>

\* Lines 148-149: the loop is over, the list is sorted.
Sort ==
    /\ pc = "loop"
    /\ idx > Len(zones)
    /\ scored_zones' = SortByTotalScore(scored_zones)
    /\ pc' = "alternatives"
    /\ UNCHANGED <<zones, event_data, idx, error, calls, first_call, frameVars, limiterVars>>

\* Lines 151-159: the second pass over the sorted list, and the return.
AttachAlternatives ==
    /\ pc = "alternatives"
    /\ LET attached == AttachAll(scored_zones, Len(scored_zones))
       IN  IF attached.raised
           THEN /\ pc' = "raised"
                /\ error' = attached.error
                /\ scored_zones' = << >>
                /\ first_call' = Remember(Outcome("raised", << >>, attached.error))
           ELSE /\ pc' = "returned"
                /\ scored_zones' = attached.value
                /\ error' = ""
                /\ first_call' = Remember(Outcome("returned", attached.value, ""))
    /\ UNCHANGED <<zones, event_data, idx, calls, frameVars, limiterVars>>

Next ==
    \/ \E event \in EventPool : Call(event)
    \/ ScoreZone
    \/ Sort
    \/ AttachAlternatives

Spec == Init /\ [][Next]_vars

-----------------------------------------------------------------------------
(* The pure scorers applied to inputs drawn from bounded sets *)

EngineIdle ==
    /\ zones = << >>
    /\ event_data = << >>
    /\ pc = "idle"
    /\ idx = 1
    /\ scored_zones = << >>
    /\ error = ""
    /\ calls = 0
    /\ first_call = None
    /\ LimiterIdle

Tags == {"young-professionals", "tech-enthusiasts", "families"}

SignalsPool ==
    [demographics : SeqUpTo(Tags, MaxSignals),
     interests : SeqUpTo(Tags, MaxSignals),
     behaviors : SeqUpTo(Tags, MaxSignals)]

AudienceInit ==
    /\ EngineIdle
    /\ fn = "_calculate_audience_match"
    /\ args \in [target_audience : SeqUpTo(Tags, MaxAudience),
                 zone_audience_signals : SignalsPool]
    /\ ret = None

ApplyAudienceMatch ==
    /\ fn = "_calculate_audience_match"
    /\ ret = None
    /\ ret' = Some(Returned(_calculate_audience_match(args.target_audience,
                                                      args.zone_audience_signals)))
    /\ UNCHANGED <<engineVars, limiterVars, fn, args>>

SpecAudience == AudienceInit /\ [][ApplyAudienceMatch]_vars

OnePart == <<<<17, 0>>>>                    \* "17:00": no "-" to split at
BadStart == <<<<NaN, 0>>, <<19, 0>>>>       \* "5pm:00-19:00"

WindowPool ==
    { Window(WorkDays, <<HourRange(17, 0, 19, 0)>>),
      Window(WeekEnd, <<HourRange(10, 0, 14, 0)>>),
      Window(WorkDays, <<HourRange(17, 30, 18, 30)>>),
      Window(WeekEnd, <<OnePart, HourRange(17, 0, 19, 0)>>),
      Window(<< >>, <<BadStart>>),
      Window(WorkDays, <<HourRange(19, 0, 17, 0)>>),
      Window(WorkDays, << >>) }

DatePool == {Thursday, Saturday, NoSuchDay, NotADate}

TimePool == {<<17, 0>>, <<18, 0>>, <<18, 59>>, <<19, 0>>, <<12, 30>>, <<NaN, 0>>}

TemporalInit ==
    /\ EngineIdle
    /\ fn = "_calculate_temporal_alignment"
    /\ args \in [event_date : DatePool, event_time : TimePool,
                 event_type : {"workshop", "concert"},
                 timing_windows : [optimal : SeqUpTo(WindowPool, MaxWindows)]]
    /\ ret = None

ApplyTemporalAlignment ==
    /\ fn = "_calculate_temporal_alignment"
    /\ ret = None
    /\ ret' = Some(Returned(_calculate_temporal_alignment(
                       args.event_date, args.event_time, args.event_type,
                       args.timing_windows)))
    /\ UNCHANGED <<engineVars, limiterVars, fn, args>>

SpecTemporal == TemporalInit /\ [][ApplyTemporalAlignment]_vars

\* Distances in micro-miles: each band's bound, the hundredth of a mile on
\* either side of it, and the next micro-mile after it.
DistancePool ==
    {0, 500000, 990000, 1000000, 1000001, 1010000, 2990000, 3000000, 3000001,
     3010000, 4990000, 5000000, 5000001, 5010000, 9990000, 10000000, 10000001,
     10010000, 25000000}

\* Two successive calls: args holds the argument of each, ret their results.
DistanceScoreInit ==
    /\ EngineIdle
    /\ fn = "_calculate_distance_score"
    /\ args \in [1..2 -> DistancePool]
    /\ ret = << >>

ApplyDistanceScore ==
    /\ fn = "_calculate_distance_score"
    /\ Len(ret) < Len(args)
    /\ ret' = Append(ret, Returned(_calculate_distance_score(args[Len(ret) + 1])))
    /\ UNCHANGED <<engineVars, limiterVars, fn, args>>

SpecDistanceScore == DistanceScoreInit /\ [][ApplyDistanceScore]_vars

DwellPool == 0..MaxDwell

DwellTimeScoreInit ==
    /\ EngineIdle
    /\ fn = "_calculate_dwell_time_score"
    /\ args \in [1..2 -> DwellPool]
    /\ ret = << >>

ApplyDwellTimeScore ==
    /\ fn = "_calculate_dwell_time_score"
    /\ Len(ret) < Len(args)
    /\ ret' = Append(ret, Returned(_calculate_dwell_time_score(args[Len(ret) + 1])))
    /\ UNCHANGED <<engineVars, limiterVars, fn, args>>

SpecDwellTimeScore == DwellTimeScoreInit /\ [][ApplyDwellTimeScore]_vars

\* One zone with its foot traffic absent, zero and high.
RiskZone(foot_traffic_daily) ==
    Zone("ballston-metro", <<"ballston", "metro">>, 38892, <<"young-professionals">>, << >>, << >>, << >>, 45, "$$", foot_traffic_daily)

\* Arguments on both sides of each threshold: audience scores 0, 10, 24 and
\* 26.67 points, dwell times 10, 19, 20 and 45 seconds, temporal scores 5, 15
\* and 30 points.
RiskArgsPool ==
    [zone : {RiskZone(None), RiskZone(Some(0)), RiskZone(Some(5000))},
     audience_match_score : {[n |-> 0, d |-> 1], [n |-> 10, d |-> 1],
                             [n |-> 24, d |-> 1], [n |-> 80, d |-> 3]},
     dwell_time_seconds : {10, 19, 20, 45},
     temporal_alignment_score : {5, 15, 30}]

\* Two successive calls that differ at most in the zone's foot traffic.
DetectDeceptiveHotspotInit ==
    /\ EngineIdle
    /\ fn = "_detect_deceptive_hotspot"
    /\ args \in {a \in [1..2 -> RiskArgsPool] :
                    [a[1] EXCEPT !.zone = a[2].zone] = a[2]}
    /\ ret = << >>

ApplyDetectDeceptiveHotspot ==
    /\ fn = "_detect_deceptive_hotspot"
    /\ Len(ret) < Len(args)
    /\ LET a == args[Len(ret) + 1]
       IN  ret' = Append(ret, _detect_deceptive_hotspot(a.zone,
                                  a.audience_match_score, a.dwell_time_seconds,
                                  a.temporal_alignment_score))
    /\ UNCHANGED <<engineVars, limiterVars, fn, args>>

SpecDetectDeceptiveHotspot ==
    DetectDeceptiveHotspotInit /\ [][ApplyDetectDeceptiveHotspot]_vars

\* A RiskWarning (lines 39-50) with is_flagged true, as a caller builds one.
FlaggedWarning ==
    [is_flagged |-> TRUE, warning_type |-> "deceptive_hotspot",
     reason |-> "Posters likely to be overlooked.", severity |-> "medium",
     details |-> << >>, alternative_zones |-> << >>]

AlternativesEvents == {e \in EventPool : e.name \in {"Tech Workshop", "Open Mic"}}

\* The zones of the pool the loop of lines 95-146 builds a ZoneScore for.
ScoredWithout(event) == {z \in ZonePool : ~ScoreOneZone(z, event).raised}

\* The ZoneScore of a zone, carrying a flagged warning or none.
ScoredAs(zone, event, flagged) ==
    LET scored == ScoreOneZone(zone, event).value
    IN  IF flagged THEN [scored EXCEPT !.risk_warning = Some(FlaggedWarning)]
        ELSE scored

\* Lists of ZoneScore in the order score_zones hands them over (sorted).
ScoredLists ==
    UNION {UNION {{SortByTotalScore([k \in 1..Len(zs) |->
                                        ScoredAs(zs[k], e, flags[k])]) :
                      flags \in [1..Len(zs) -> BOOLEAN]} :
                  zs \in InjSeqUpTo(ScoredWithout(e), MaxZones)} :
           e \in AlternativesEvents}

SelectAlternativeZonesInit ==
    /\ EngineIdle
    /\ fn = "_select_alternative_zones"
    /\ args \in [flagged_zone : UNION {ScoredWithout(e) : e \in AlternativesEvents},
                 all_scored_zones : ScoredLists,
                 max_alternatives : {3}]
    /\ ret = None

ApplySelectAlternativeZones ==
    /\ fn = "_select_alternative_zones"
    /\ ret = None
    /\ ret' = Some(_select_alternative_zones(args.flagged_zone,
                                             args.all_scored_zones,
                                             args.max_alternatives))
    /\ UNCHANGED <<engineVars, limiterVars, fn, args>>

SpecSelectAlternativeZones ==
    SelectAlternativeZonesInit /\ [][ApplySelectAlternativeZones]_vars

\* The temporal score of a zone and then its risk detection, as lines 106-107
\* and 126-131 of score_zones chain them, for a zone whose audience match
\* (40 points) and dwell time (45 s) trigger no rule of their own.
TimingInit ==
    /\ EngineIdle
    /\ fn = "timing_misalignment"
    /\ args \in [event_date : DatePool, event_time : TimePool,
                 zone : {[RiskZone(traffic) EXCEPT !.timing_windows = [optimal |-> w]] :
                            traffic \in {None, Some(5000)},
                            w \in SeqUpTo(WindowPool, MaxWindows)}]
    /\ ret = << >>

ApplyTimingAlignment ==
    /\ fn = "timing_misalignment"
    /\ Len(ret) = 0
    /\ ret' = <<Returned(_calculate_temporal_alignment(args.event_date,
                     args.event_time, "workshop", args.zone.timing_windows))>>
    /\ UNCHANGED <<engineVars, limiterVars, fn, args>>

ApplyTimingDetection ==
    /\ fn = "timing_misalignment"
    /\ Len(ret) = 1
    /\ ret' = Append(ret, _detect_deceptive_hotspot(args.zone, [n |-> 40, d |-> 1],
                                                    45, ret[1].value))
    /\ UNCHANGED <<engineVars, limiterVars, fn, args>>

SpecTiming == TimingInit /\ [][ApplyTimingAlignment \/ ApplyTimingDetection]_vars

\* Arguments on both sides of each threshold of the commentary: audience
\* scores 0, 23.67, 24, 31.67, 32 and 40 points, distances around 1 and 3
\* miles, dwell times around 30 and 45 seconds, and every kind of time_period.
ReasoningArgsPool ==
    [zone : ZonePool,
     audience_match : {[n |-> 0, d |-> 1], [n |-> 71, d |-> 3], [n |-> 24, d |-> 1],
                       [n |-> 95, d |-> 3], [n |-> 32, d |-> 1], [n |-> 40, d |-> 1]},
     temporal_alignment : {15},
     distance_miles : {0, 990000, 999999, 1000000, 2999999, 3000000, 5000000},
     dwell_time_seconds : {29, 30, 44, 45, 60},
     event_data : {Event("Tech Workshop", Thursday, <<18, 0>>, << >>, "workshop", tp) :
                      tp \in {None, Some(""), Some("morning"), Some("lunch"),
                              Some("evening"), Some("night")}}]

GenerateReasoningInit ==
    /\ EngineIdle
    /\ fn = "_generate_reasoning"
    /\ args \in ReasoningArgsPool
    /\ ret = None

ApplyGenerateReasoning ==
    /\ fn = "_generate_reasoning"
    /\ ret = None
    /\ ret' = Some(Returned(_generate_reasoning(args.zone, args.audience_match,
                       args.temporal_alignment, args.distance_miles,
                       args.dwell_time_seconds, args.event_data)))
    /\ UNCHANGED <<engineVars, limiterVars, fn, args>>

SpecGenerateReasoning == GenerateReasoningInit /\ [][ApplyGenerateReasoning]_vars

-----------------------------------------------------------------------------
(* The routes POST /score and POST /top (routes/recommendations.py)        *)

\* The loop of lines 95-146 over the first k zones: the list built, or the
\* exception that ends the call.
RECURSIVE ScoreLoop(_, _, _)
ScoreLoop(zone_list, event, k) ==
    IF k = 0 THEN Returned(NewScoredZones(<< >>))
    ELSE LET before == ScoreLoop(zone_list, event, k - 1)
         IN  IF before.raised THEN before
             ELSE LET scored == ScoreOneZone(zone_list[k], event)
                  IN  IF scored.raised THEN scored
                      ELSE Returned(Append(before.value, scored.value))

\* A whole call of RecommendationsService.score_zones, as a route makes it.
score_zones(zone_list, event) ==
    LET loop == ScoreLoop(zone_list, event, Len(zone_list))
    IN  IF loop.raised THEN loop
        ELSE AttachAll(SortByTotalScore(loop.value), Len(loop.value))

\* day[:3]
DayAbbreviation(day) ==
    CASE day = "Monday" -> "Mon" [] day = "Tuesday" -> "Tue"
      [] day = "Wednesday" -> "Wed" [] day = "Thursday" -> "Thu"
      [] day = "Friday" -> "Fri" [] day = "Saturday" -> "Sat"
      [] day = "Sunday" -> "Sun"

\* Lines 115-125: the days of a window as the abbreviations joined by "-".
FormatDays(days_list) ==
    IF days_list = << >> THEN <<"Any day">>
    ELSE IF Len(days_list) = 5 /\ "Monday" \in Range(days_list)
            /\ "Friday" \in Range(days_list)
    THEN <<"Mon", "Fri">>
    ELSE IF Len(days_list) >= 2
    THEN <<DayAbbreviation(days_list[1]), DayAbbreviation(days_list[Len(days_list)])>>
    ELSE <<DayAbbreviation(days_list[1])>>

TwelveHour(hour) == IF hour % 12 = 0 THEN 12 ELSE hour % 12

\* Lines 128-142: the first range of a window in 12-hour form.  A range
\* without "-" leaves "Any time"; one that does not split in two, or whose
\* hours int() rejects, raises ValueError.
FormatHours(times_list) ==
    IF times_list = << >> THEN Returned(<<"Any time">>)
    ELSE LET time_range == times_list[1]
         IN  IF Len(time_range) = 1 THEN Returned(<<"Any time">>)
             ELSE IF Len(time_range) # 2 THEN Raised("ValueError")
             ELSE IF time_range[1][1] = NaN \/ time_range[2][1] = NaN
             THEN Raised("ValueError")
             ELSE Returned(<<TwelveHour(time_range[1][1]),
                             TwelveHour(time_range[2][1]),
                             IF time_range[2][1] >= 12 THEN "pm" ELSE "am">>)

\* _format_timing_windows over the first k windows.
RECURSIVE FormatWindows(_, _)
FormatWindows(optimal, k) ==
    IF k = 0 THEN Returned(<< >>)
    ELSE LET before == FormatWindows(optimal, k - 1)
             hours == FormatHours(optimal[k].times)
         IN  IF before.raised THEN before
             ELSE IF hours.raised THEN hours
             ELSE Returned(Append(before.value,
                                  [days |-> FormatDays(optimal[k].days),
                                   hours |-> hours.value,
                                   reasoning |-> optimal[k].reasoning]))

_format_timing_windows(timing_windows_dict) ==
    FormatWindows(timing_windows_dict.optimal, Len(timing_windows_dict.optimal))

\* Lines 169-181: the venue types inferred from the demographics.
VenueTypes(zone) ==
    LET demographics == Range(zone.audience_signals.demographics)
        venue_types ==
            (IF {"students", "young-adults"} \cap demographics # {}
             THEN <<"cafe">> ELSE << >>)
            \o (IF "families" \in demographics THEN <<"park">> ELSE << >>)
            \o (IF "young-professionals" \in demographics
                THEN <<"restaurant">> ELSE << >>)
    IN  IF venue_types = << >> THEN <<"default">> ELSE venue_types

\* The response of one ZoneScore.  The analytics are generated from the venue
\* types alone (analytics.py 230-262) and stand here as those types.
_zone_score_to_response(zone_score) ==
    LET zone == zone_score.zone
        windows == _format_timing_windows(zone.timing_windows)
    IN  IF windows.raised THEN windows
        ELSE Returned(
            [zone_id |-> zone.id, zone_name |-> zone.name,
             total_score |-> zone_score.total_score,
             audience_match_score |-> zone_score.audience_match_score,
             temporal_score |-> zone_score.temporal_alignment_score,
             distance_score |-> zone_score.distance_score,
             dwell_time_score |-> zone_score.dwell_time_score,
             distance_miles |-> zone_score.distance_miles,
             timing_windows |-> windows.value,
             dwell_time_seconds |-> zone.dwell_time_seconds,
             cost_tier |-> zone.cost_tier,
             reasoning |-> zone_score.reasoning,
             matched_signals |-> << >>,
             data_sources |-> zone_score.data_sources,
             latitude |-> zone.coordinates.lat,
             longitude |-> zone.coordinates.lon,
             analytics |-> VenueTypes(zone)])

\* asyncio.gather over the responses of the first k elements: the list of
\* responses, or the exception of an element whose conversion raises.
RECURSIVE GatherResponses(_, _)
GatherResponses(zone_scores, k) ==
    IF k = 0 THEN Returned(<< >>)
    ELSE LET before == GatherResponses(zone_scores, k - 1)
             response == _zone_score_to_response(zone_scores[k])
         IN  IF before.raised THEN before
             ELSE IF response.raised THEN response
             ELSE Returned(Append(before.value, response.value))

\* The except clause of both routes: any exception becomes a response 500.
ServerError == Raised("HTTPException 500")

\* POST /score (lines 218-259).
score_zones_route(zone_list, event_data_in) ==
    LET scored == score_zones(zone_list, event_data_in)
    IN  IF scored.raised THEN ServerError
        ELSE LET responses == GatherResponses(scored.value, Len(scored.value))
             IN  IF responses.raised THEN ServerError ELSE responses

\* Variant: the slice leaves out the element at the limit.
TopZonesBelowLimit(scored, limit) ==
    SubSeq(scored, 1, IF limit - 1 < Len(scored) THEN limit - 1 ELSE Len(scored))

\* Line 288: scored_zones[:limit].
TopZones(scored, limit) ==
    SubSeq(scored, 1, IF limit < Len(scored) THEN limit ELSE Len(scored))

\* POST /top (lines 262-302).
get_top_recommendations(zone_list, event_data_in, limit) ==
    LET scored == score_zones(zone_list, event_data_in)
    IN  IF scored.raised THEN ServerError
        ELSE LET top_zones == TopZones(scored.value, limit)
                 responses == GatherResponses(top_zones, Len(top_zones))
             IN  IF responses.raised THEN ServerError ELSE responses

\* The zones of the engine's pool, and one whose first time range is
\* "5pm:00-19:00" before a well-formed one.
RouteZonePool ==
    ZonePool \cup
    { Zone("virginia-square", <<"virginia", "square">>, 38887, <<"young-professionals", "students">>, <<"tech-enthusiasts">>, << >>, <<Window(WorkDays, <<BadStart, HourRange(17, 0, 19, 0)>>)>>, 40, "$", Some(700)) }

\* One request to each route for the same event over the same zones.
RoutesInit ==
    /\ zones \in InjSeqUpTo(RouteZonePool, MaxZones)
    /\ event_data = << >>
    /\ pc = "idle"
    /\ idx = 1
    /\ scored_zones = << >>
    /\ error = ""
    /\ calls = 0
    /\ first_call = None
    /\ LimiterIdle
    /\ fn = "routes"
    /\ args \in [event_data : EventPool, limit : 1..MaxLimit]
    /\ ret = << >>

PostScore ==
    /\ fn = "routes"
    /\ Len(ret) = 0
    /\ ret' = <<score_zones_route(zones, args.event_data)>>
    /\ UNCHANGED <<engineVars, limiterVars, fn, args>>

PostTop ==
    /\ fn = "routes"
    /\ Len(ret) = 1
    /\ ret' = Append(ret, get_top_recommendations(zones, args.event_data, args.limit))
    /\ UNCHANGED <<engineVars, limiterVars, fn, args>>

SpecRoutes == RoutesInit /\ [][PostScore \/ PostTop]_vars

-----------------------------------------------------------------------------
(* RateLimiter (middleware/rate_limiter.py 17-84) *)

\* Line 26.
cleanup_interval == 3600

\* An entry of a key's list: (timestamp, count).
Entry(ts, count) == <<ts, count>>

\* The entries of a list with a timestamp after the cutoff, in order.
RECURSIVE EntriesAfter(_, _)
EntriesAfter(log, cutoff_time) ==
    IF log = << >> THEN << >>
    ELSE IF Head(log)[1] > cutoff_time
    THEN <<Head(log)>> \o EntriesAfter(Tail(log), cutoff_time)
    ELSE EntriesAfter(Tail(log), cutoff_time)

\* sum(count for _, count in recent_requests), line 70.
RECURSIVE SumCounts(_)
SumCounts(log) == IF log = << >> THEN 0 ELSE Head(log)[2] + SumCounts(Tail(log))

\* _cleanup_old_entries (lines 29-41) at clock now: more than an hour after
\* the last cleanup every list keeps its entries of the last 24 hours, and a
\* key whose list is left empty is deleted.
CleanedRequests(reqs, last, now) ==
    IF now - last > cleanup_interval
    THEN LET kept == [k \in DOMAIN reqs |-> EntriesAfter(reqs[k], now - 86400)]
         IN  [k \in {j \in DOMAIN kept : kept[j] # << >>} |-> kept[k]]
    ELSE reqs

CleanedLast(last, now) == IF now - last > cleanup_interval THEN now ELSE last

\* self.requests[key] on the defaultdict (line 65): a missing key is inserted
\* with an empty list.
WithKey(reqs, key) ==
    [k \in DOMAIN reqs \cup {key} |-> IF k \in DOMAIN reqs THEN reqs[k] ELSE << >>]

\* The key's list as a caller would read it, empty if the key is absent.
LogOf(reqs, key) == IF key \in DOMAIN reqs THEN reqs[key] ELSE << >>

\* The keys of the callers, and the limits (max_requests, window_seconds) a
\* limiter is used with: one request a minute, two a minute, two a day, and
\* one per 90000 seconds (25 hours).
KeyPool == {"ip:10.0.0.1", "user:u1"}

LimitPool ==
    {[max_requests |-> 1, window_seconds |-> 60],
     [max_requests |-> 2, window_seconds |-> 60],
     [max_requests |-> 2, window_seconds |-> 86400],
     [max_requests |-> 1, window_seconds |-> 90000]}

\* What the clock advances by between two calls, in seconds.
ClockStepPool == {0, 30, 3601, 86400}

RateLimiterInit ==
    /\ EngineIdle
    /\ fn = "check_rate_limit"
    /\ args \in LimitPool
    /\ ret = << >>

\* check_rate_limit (lines 43-84) for one key, the clock having advanced.
\* ret holds the tuple returned: (allowed, remaining, reset_time).
CheckRateLimit ==
    /\ fn = "check_rate_limit"
    /\ Len(answers) < MaxChecks
    /\ \E key \in KeyPool, step \in ClockStepPool :
          LET now == current_time + step
              cutoff_time == now - args.window_seconds
              cleaned == WithKey(CleanedRequests(requests, last_cleanup, now), key)
              recent_requests == EntriesAfter(cleaned[key], cutoff_time)
              request_count == SumCounts(recent_requests)
              allowed == request_count < args.max_requests
              remaining == IF args.max_requests - request_count - 1 > 0
                           THEN args.max_requests - request_count - 1 ELSE 0
              stored == IF allowed
                        THEN [cleaned EXCEPT ![key] = Append(recent_requests, Entry(now, 1))]
                        ELSE cleaned
              reset_time == IF allowed \/ recent_requests # << >>
                            THEN cutoff_time + args.window_seconds ELSE now
          IN  /\ current_time' = now
              /\ last_cleanup' = CleanedLast(last_cleanup, now)
              /\ requests' = stored
              /\ ret' = <<allowed, remaining, reset_time>>
              /\ answers' = Append(answers,
                                   [key |-> key, time |-> now, allowed |-> allowed,
                                    log_before |-> LogOf(requests, key),
                                    log_after |-> stored[key]])
    /\ UNCHANGED <<engineVars, fn, args>>

SpecRateLimiter == RateLimiterInit /\ [][CheckRateLimit]_vars

-----------------------------------------------------------------------------
(* Properties of score_zones, checked under Spec *)

ListReturned == pc = "returned"

\* C1: the list score_zones returns is non-increasing in total_score, after the
\* sort and still after the second pass that attaches alternatives.
C1_SortedDescending ==
    pc \in {"alternatives", "returned"} =>
        \A i \in 1..(Len(scored_zones) - 1) :
            scored_zones[i].total_score >= scored_zones[i + 1].total_score

\* A returned list of distinct totals whose best zone was not first in the input.
C1_Witness ==
    /\ ListReturned
    /\ Len(scored_zones) >= 2
    /\ scored_zones[1].total_score > scored_zones[Len(scored_zones)].total_score
    /\ scored_zones[1].zone # zones[1]

\* C2: every ZoneScore produced has its audience score in [0, 40], temporal
\* score in [0, 30], distance score in [0, 20], dwell score in [0, 10] and
\* total in [0, 100] (scores are in tenths of a point).
C2_ScoreRanges ==
    \A i \in 1..Len(scored_zones) :
        /\ scored_zones[i].audience_match_score \in 0..400
        /\ scored_zones[i].temporal_alignment_score \in 0..300
        /\ scored_zones[i].distance_score \in 0..200
        /\ scored_zones[i].dwell_time_score \in 0..100
        /\ scored_zones[i].total_score \in 0..1000

\* A returned list holding a full-mark audience score and a fractional one.
C2_Witness ==
    /\ ListReturned
    /\ \E i \in 1..Len(scored_zones) : scored_zones[i].audience_match_score = 267
    /\ \E i \in 1..Len(scored_zones) : scored_zones[i].total_score = 817

\* C3: total_score (the unrounded sum rounded to one decimal) differs from the
\* sum of the four rounded sub-scores by at most 0.1, one tenth.
C3_TotalIsSum ==
    \A i \in 1..Len(scored_zones) :
        Abs(scored_zones[i].total_score
            - (scored_zones[i].audience_match_score
               + scored_zones[i].temporal_alignment_score
               + scored_zones[i].distance_score
               + scored_zones[i].dwell_time_score)) <= 1

\* A ZoneScore whose audience score was rounded: 26.666... scored as 26.7.
C3_Witness ==
    \E i \in 1..Len(scored_zones) :
        /\ scored_zones[i].audience_match_score = 267
        /\ scored_zones[i].total_score = 667

\* C4: score_zones is deterministic: a call with the event of the first call
\* (and the same zone list) ends as the first call did, with the same list in
\* the same order or the same exception; nothing an earlier call left behind
\* changes it.
C4_Deterministic ==
    (/\ pc \in {"returned", "raised"}
     /\ first_call # None
     /\ first_call[1].event = event_data)
        => Outcome(pc, scored_zones, error) = first_call[1].outcome

\* A second call with the event of the first one returned two zones or more.
C4_Witness ==
    /\ calls = 2
    /\ ListReturned
    /\ first_call # None
    /\ first_call[1].event = event_data
    /\ Len(scored_zones) >= 2

\* C5: the list returned holds exactly one ZoneScore per input zone (a
\* permutation of the input, nothing dropped or duplicated), and is empty for
\* an empty zone list.
C5_OnePerZone ==
    ListReturned =>
        /\ Len(scored_zones) = Len(zones)
        /\ \A z \in Range(zones) :
               Cardinality({j \in 1..Len(scored_zones) : scored_zones[j].zone = z}) = 1
        /\ (zones = << >> => scored_zones = << >>)

\* Three zones returned, two of them with equal totals, in another order
\* than the input's.
C5_Witness ==
    /\ ListReturned
    /\ Len(zones) = 3
    /\ scored_zones[2].total_score = scored_zones[3].total_score
    /\ scored_zones[1].zone # zones[1]

-----------------------------------------------------------------------------
(* Properties of _calculate_audience_match, checked under SpecAudience *)

RatEq(a, b) == a.n * b.d = b.n * a.d

\* The tags of a zone, as the claim speaks of them.
ZoneTagSet(signals) ==
    Range(signals.demographics) \cup Range(signals.interests)
    \cup Range(signals.behaviors)

\* C6: the audience-match score is 0 for an empty target_audience, 0 for a zone
\* without tags, and otherwise 40 * matches / len(target_audience), matches
\* being the number of target_audience entries found among the zone's tags.
C6_AudienceFormula ==
    ret # None =>
        LET target == args.target_audience
            tags == ZoneTagSet(args.zone_audience_signals)
            matches == Cardinality({i \in 1..Len(target) : target[i] \in tags})
            score == ret[1].value
        IN  /\ ~ret[1].raised
            /\ IF target = << >> THEN RatEq(score, [n |-> 0, d |-> 1])
               ELSE IF tags = {} THEN RatEq(score, [n |-> 0, d |-> 1])
               ELSE RatEq(score, [n |-> 40 * matches, d |-> Len(target)])

\* Three distinct target tags, two of them among the zone's: 40 * 2/3.
C6_Witness ==
    /\ ret # None
    /\ Cardinality(Range(args.target_audience)) = 3
    /\ RatEq(ret[1].value, [n |-> 80, d |-> 3])

\* The list without its duplicate tags, first occurrences kept.
RECURSIVE Dedupe(_)
Dedupe(s) ==
    IF s = << >> THEN << >>
    ELSE LET front == Dedupe(SubSeq(s, 1, Len(s) - 1))
         IN  IF s[Len(s)] \in Range(front) THEN front
             ELSE Append(front, s[Len(s)])

\* C7: duplicate tags in target_audience do not double-count: the score of a
\* list equals the score of the list with its duplicates removed.
C7_DuplicatesDoNotCount ==
    ret # None =>
        RatEq(ret[1].value,
              _calculate_audience_match(Dedupe(args.target_audience),
                                        args.zone_audience_signals))

-----------------------------------------------------------------------------
(* Properties of _calculate_temporal_alignment, checked under SpecTemporal *)

\* C8: temporal alignment returns exactly 15, without raising, whenever the
\* zone has no optimal window, or the date does not parse to a weekday, or the
\* leading hour of the time does not parse, whatever the other inputs are.
C8_FailsSoft ==
    (/\ ret # None
     /\ \/ args.timing_windows.optimal = << >>
        \/ args.event_date \in {NoSuchDay, NotADate}
        \/ args.event_time[1] = NaN)
        => ret[1] = Returned(15)

\* A date that names no day, scored against a zone that has windows.
C8_Witness ==
    /\ ret # None
    /\ args.event_date = NoSuchDay
    /\ args.event_time[1] # NaN
    /\ args.timing_windows.optimal # << >>
    /\ ret[1] = Returned(15)

EventParses == args.event_date \in {Thursday, Saturday} /\ args.event_time[1] # NaN

ClaimDay == IF args.event_date = Thursday THEN "Thursday" ELSE "Saturday"

ClaimTimeMatch(window, hour) ==
    \E i \in 1..Len(window.times) :
        LET r == window.times[i]
        IN  /\ Len(r) = 2
            /\ r[1][1] # NaN
            /\ r[2][1] # NaN
            /\ hour \in r[1][1]..(r[2][1] - 1)

ClaimWindowScore(window, day, hour) ==
    LET day_match == \E i \in 1..Len(window.days) : window.days[i] = day
    IN  CASE day_match /\ ClaimTimeMatch(window, hour) -> 30
          [] day_match /\ ~ClaimTimeMatch(window, hour) -> 20
          [] ~day_match /\ ClaimTimeMatch(window, hour) -> 15
          [] OTHER -> 5

SetMax(S) == CHOOSE x \in S : \A y \in S : y <= x

\* C9: when date and time parse and the zone has a window, the score is the
\* maximum over the windows of 30 (day and time match), 20 (day only),
\* 15 (time only), 5 (neither); one fully matching window yields 30.
C9_BestWindow ==
    (ret # None /\ EventParses /\ args.timing_windows.optimal # << >>) =>
        LET optimal == args.timing_windows.optimal
            scores == {ClaimWindowScore(optimal[i], ClaimDay, args.event_time[1]) :
                          i \in 1..Len(optimal)}
        IN  /\ ret[1] = Returned(SetMax(scores))
            /\ (30 \in scores => ret[1].value = 30)

\* A fully matching window followed by a window that matches nothing: 30.
C9_Witness ==
    /\ ret # None
    /\ EventParses
    /\ Len(args.timing_windows.optimal) = 2
    /\ ClaimWindowScore(args.timing_windows.optimal[1], ClaimDay,
                        args.event_time[1]) = 30
    /\ ClaimWindowScore(args.timing_windows.optimal[2], ClaimDay,
                        args.event_time[1]) = 5
    /\ ret[1].value = 30

\* The input is one window with one well-formed range, and the event parses.
OneRange ==
    /\ EventParses
    /\ Len(args.timing_windows.optimal) = 1
    /\ Len(args.timing_windows.optimal[1].times) = 1
    /\ Len(args.timing_windows.optimal[1].times[1]) = 2
    /\ args.timing_windows.optimal[1].times[1][1][1] # NaN
    /\ args.timing_windows.optimal[1].times[1][2][1] # NaN

\* C10: a range "HH:MM-HH:MM" matches as the half-open hour interval
\* [start_hour, end_hour): the result is a time match (30 or 15) exactly when
\* start_hour <= event hour < end_hour, whatever the minutes are.
C10_HalfOpenHours ==
    (ret # None /\ OneRange) =>
        LET range == args.timing_windows.optimal[1].times[1]
            hour == args.event_time[1]
        IN  (ret[1].value \in {30, 15}) <=> (range[1][1] <= hour /\ hour < range[2][1])

\* The event hour equals the end hour and lies inside the range by the
\* minutes (18:00 against 17:30-18:30): no time match.
C10_Witness ==
    /\ ret # None
    /\ OneRange
    /\ args.event_time = <<18, 0>>
    /\ args.timing_windows.optimal[1].times[1] = HourRange(17, 30, 18, 30)
    /\ ret[1].value \in {20, 5}

-----------------------------------------------------------------------------
(* Properties of _calculate_distance_score, checked under SpecDistanceScore *)

\* C11: the distance score is 20 up to 1 mile, 15 above 1 and up to 3 miles,
\* 10 above 3 and up to 5, 5 above 5 and up to 10, and 2 beyond (every upper
\* bound inclusive; distances are in micro-miles); of two distances the farther one never scores higher.
C11_DistanceBands ==
    /\ \A i \in 1..Len(ret) :
           LET d == args[i]
           IN  ret[i] = Returned(CASE d <= 1000000 -> 20
                                   [] 1000000 < d /\ d <= 3000000 -> 15
                                   [] 3000000 < d /\ d <= 5000000 -> 10
                                   [] 5000000 < d /\ d <= 10000000 -> 5
                                   [] OTHER -> 2)
    /\ (Len(ret) = 2 /\ args[1] <= args[2]) => ret[1].value >= ret[2].value

\* 3.0 miles scores 15 and 3.01 miles scores 10.
C11_Witness ==
    /\ Len(ret) = 2
    /\ args = <<3000000, 3010000>>
    /\ ret[1].value = 15
    /\ ret[2].value = 10

-----------------------------------------------------------------------------
(* Properties of _calculate_dwell_time_score, checked under SpecDwellTimeScore *)

\* C12: the dwell-time score is 10 from 60 seconds on, 8 from 45 to below 60,
\* 6 from 30 to below 45, 4 from 20 to below 30 and 2 below 20 (every lower
\* bound inclusive); of two dwell times the longer one never scores lower.
C12_DwellStaircase ==
    /\ \A i \in 1..Len(ret) :
           LET seconds == args[i]
           IN  ret[i] = Returned(CASE seconds >= 60 -> 10
                                   [] 45 <= seconds /\ seconds < 60 -> 8
                                   [] 30 <= seconds /\ seconds < 45 -> 6
                                   [] 20 <= seconds /\ seconds < 30 -> 4
                                   [] OTHER -> 2)
    /\ (Len(ret) = 2 /\ args[1] <= args[2]) => ret[1].value <= ret[2].value

\* 59 seconds scores 8 and 60 seconds scores 10.
C12_Witness ==
    /\ Len(ret) = 2
    /\ args = <<59, 60>>
    /\ ret[1].value = 8
    /\ ret[2].value = 10

-----------------------------------------------------------------------------
(* Properties of _detect_deceptive_hotspot, checked under                  *)
(* SpecDetectDeceptiveHotspot                                              *)

\* The rules the arguments trigger, in the order of the table.  The fourth
\* rule reads visual_distractions and advertising_density, which no Zone
\* carries, so it triggers for none of the arguments.
RulesTriggered(a) ==
    (IF a.dwell_time_seconds < 20 THEN <<"low_dwell_time">> ELSE << >>)
    \o (IF a.audience_match_score.n < 24 * a.audience_match_score.d
        THEN <<"poor_audience_match">> ELSE << >>)
    \o (IF a.temporal_alignment_score < 15 THEN <<"timing_misalignment">>
        ELSE << >>)

\* C13: risk detection returns no warning exactly when no rule triggers; when
\* a rule triggers it returns a warning with is_flagged true whose
\* warning_categories are the triggered rules, one entry each, in the order
\* low_dwell_time, poor_audience_match, timing_misalignment, visual_noise.
C13_CategoriesPerRule ==
    \A i \in 1..Len(ret) :
        IF RulesTriggered(args[i]) = << >> THEN ret[i] = Returned(None)
        ELSE /\ ~ret[i].raised
             /\ ret[i].value # None
             /\ ret[i].value[1].is_flagged
             /\ [k \in 1..Len(ret[i].value[1].warning_categories) |->
                    ret[i].value[1].warning_categories[k].category_type]
                = RulesTriggered(args[i])

\* C14: the severity of the warning is "high" when two or more rules
\* triggered and "medium" when exactly one did, whichever it is; dwell time
\* below 20 s together with audience match below 24 always gives "high".
C14_SeverityByCount ==
    \A i \in 1..Len(ret) :
        Len(RulesTriggered(args[i])) >= 1 =>
            /\ ~ret[i].raised
            /\ ret[i].value # None
            /\ ret[i].value[1].severity =
                   (IF Len(RulesTriggered(args[i])) >= 2 THEN "high" ELSE "medium")

\* What the claim compares of two results: the flag, the categories and the
\* severity of the warning, or the absence of a warning.
Flagging(result) ==
    IF result.value = None THEN None
    ELSE <<result.value[1].is_flagged, result.value[1].warning_categories,
           result.value[1].severity>>

\* C15: for a zone without foot_traffic_daily risk detection completes
\* without error and gives the flag, categories and severity it gives for the
\* same zone with foot_traffic_daily = 0 (the high-traffic remark is in
\* neither reason).
C15_AbsentFootTrafficIsZero ==
    \A i \in 1..Len(ret) :
        args[i].zone.foot_traffic_daily = None =>
            /\ ~ret[i].raised
            /\ \A j \in 1..Len(ret) :
                   (args[j].zone.foot_traffic_daily = Some(0) /\ ~ret[j].raised)
                       => Flagging(ret[i]) = Flagging(ret[j])

-----------------------------------------------------------------------------
(* Properties of _select_alternative_zones, checked under                  *)
(* SpecSelectAlternativeZones                                              *)

\* The position of the flagged zone in the list, 0 if it is not in it.
PositionOf(zone, list) ==
    IF \E k \in 1..Len(list) : list[k].zone = zone
    THEN CHOOSE k \in 1..Len(list) : list[k].zone = zone
    ELSE 0

\* The call is for a zone of the list that is flagged there.
ForFlaggedZone ==
    /\ ret # None
    /\ PositionOf(args.flagged_zone, args.all_scored_zones) # 0
    /\ IsFlagged(args.all_scored_zones[PositionOf(args.flagged_zone,
                                                  args.all_scored_zones)])

FlaggedScore ==
    args.all_scored_zones[PositionOf(args.flagged_zone,
                                     args.all_scored_zones)].total_score

\* The positions of the candidates the claims call eligible: not flagged,
\* scoring strictly higher than the flagged zone, and not that zone.
Eligible ==
    {k \in 1..Len(args.all_scored_zones) :
        /\ ~IsFlagged(args.all_scored_zones[k])
        /\ args.all_scored_zones[k].total_score > FlaggedScore
        /\ args.all_scored_zones[k].zone # args.flagged_zone}

\* The position in the list of the zone an alternative names, 0 if none.
PositionNamed(alternative) ==
    IF \E k \in 1..Len(args.all_scored_zones) :
           args.all_scored_zones[k].zone.id = alternative.zone_id
    THEN CHOOSE k \in 1..Len(args.all_scored_zones) :
           args.all_scored_zones[k].zone.id = alternative.zone_id
    ELSE 0

\* C16: for a flagged zone F the alternatives are selected, and every entry
\* names a zone of the list that is not flagged, scores strictly higher than
\* F and is not F.
C16_AlternativesAreBetter ==
    ForFlaggedZone =>
        /\ ~ret[1].raised
        /\ \A i \in 1..Len(ret[1].value) :
               PositionNamed(ret[1].value[i]) \in Eligible

\* C17: for a flagged zone the alternatives are min(3, number of eligible
\* candidates) entries in non-increasing total_score, and no eligible
\* candidate left out scores strictly higher than one that was included.
C17_TopThreeCandidates ==
    ForFlaggedZone =>
        /\ ~ret[1].raised
        /\ Len(ret[1].value) = (IF Cardinality(Eligible) < 3
                                THEN Cardinality(Eligible) ELSE 3)
        /\ \A i \in 1..(Len(ret[1].value) - 1) :
               ret[1].value[i].total_score >= ret[1].value[i + 1].total_score
        /\ \A k \in Eligible :
               (\A i \in 1..Len(ret[1].value) : PositionNamed(ret[1].value[i]) # k)
                   => \A i \in 1..Len(ret[1].value) :
                          args.all_scored_zones[k].total_score
                              <= ret[1].value[i].total_score

\* C18: for a flagged zone with an eligible candidate, every alternative
\* listed carries as rank the 1-indexed position of its zone in the full
\* sorted list, and as total_score that zone's total_score in the list.
C18_RankInFullList ==
    (ForFlaggedZone /\ Eligible # {}) =>
        /\ ~ret[1].raised
        /\ ret[1].value # << >>
        /\ \A i \in 1..Len(ret[1].value) :
               /\ PositionNamed(ret[1].value[i]) # 0
               /\ ret[1].value[i].rank = PositionNamed(ret[1].value[i])
               /\ ret[1].value[i].total_score =
                      args.all_scored_zones[PositionNamed(ret[1].value[i])].total_score

-----------------------------------------------------------------------------
(* Further properties of score_zones, checked under Spec *)

\* The position of a zone in the input list (the zones of a list are distinct).
InputPosition(zone) == CHOOSE k \in 1..Len(zones) : zones[k] = zone

\* C19: the sort of score_zones is stable: two zones with equal total_score
\* are in the output in the relative order they had in the input zone list.
C19_StableSort ==
    pc \in {"alternatives", "returned"} =>
        \A i \in 1..Len(scored_zones) : \A j \in (i + 1)..Len(scored_zones) :
            scored_zones[i].total_score = scored_zones[j].total_score
                => InputPosition(scored_zones[i].zone)
                       < InputPosition(scored_zones[j].zone)

\* Two zones with equal totals returned behind a zone that stood between
\* them in the input.
C19_Witness ==
    /\ ListReturned
    /\ Len(zones) = 3
    /\ scored_zones[2].total_score = scored_zones[3].total_score
    /\ scored_zones[1].total_score > scored_zones[2].total_score
    /\ scored_zones[1].zone = zones[2]
    /\ scored_zones[2].zone = zones[1]
    /\ scored_zones[3].zone = zones[3]

\* C20: score_zones never surfaces an error from inside the engine: no call
\* ends with an exception, whatever the event and the zones are.
C20_NeverRaises == pc # "raised" /\ error = ""

\* The flagged zone's own entry in the list.
FlaggedZoneData ==
    args.all_scored_zones[PositionOf(args.flagged_zone, args.all_scored_zones)]

\* C26: for a flagged zone with an eligible candidate the alternatives are
\* listed, and the reason of an alternative is "higher overall score" iff
\* none of the three differentials qualifies: its audience_match_score is not
\* more than 5 points above the flagged zone's, its dwell_time_score not more
\* than 2 points above, and its distance_miles not strictly smaller.
C26_FallbackReason ==
    (ForFlaggedZone /\ Eligible # {}) =>
        /\ ~ret[1].raised
        /\ ret[1].value # << >>
        /\ \A i \in 1..Len(ret[1].value) :
               LET candidate == args.all_scored_zones[PositionNamed(ret[1].value[i])]
               IN  (ret[1].value[i].reason = "higher overall score")
                     <=> ~(\/ candidate.audience_match_score
                                > FlaggedZoneData.audience_match_score + 50
                           \/ candidate.dwell_time_score
                                > FlaggedZoneData.dwell_time_score + 20
                           \/ candidate.distance_miles
                                < FlaggedZoneData.distance_miles)

\* C29: for a flagged zone F of a list of zones with unique ids that has an
\* eligible candidate, the alternatives are listed, every rank is between 1
\* and the number of zones and strictly smaller than F's 1-indexed position,
\* and the ranks are strictly increasing along the list of alternatives.
C29_RanksAboveFlagged ==
    (ForFlaggedZone /\ Eligible # {}) =>
        /\ ~ret[1].raised
        /\ ret[1].value # << >>
        /\ \A i \in 1..Len(ret[1].value) :
               /\ ret[1].value[i].rank \in 1..Len(args.all_scored_zones)
               /\ ret[1].value[i].rank
                     < PositionOf(args.flagged_zone, args.all_scored_zones)
        /\ \A i \in 1..(Len(ret[1].value) - 1) :
               ret[1].value[i].rank < ret[1].value[i + 1].rank

-----------------------------------------------------------------------------
(* Properties of score_zones across events and zone lists, checked under   *)
(* Spec                                                                    *)

\* Two events that differ at most in event_type and time_period.
SameButTypeAndPeriod(e1, e2) ==
    [e1 EXCEPT !.event_type = e2.event_type, !.time_period = e2.time_period] = e2

\* What a call yields apart from the reasoning text: how it ended, and per
\* element the zone, the scores, the distance, the data sources and the warning.
NumericOutcome(outcome) ==
    [pc |-> outcome.pc, error |-> outcome.error,
     scored_zones |-> [i \in 1..Len(outcome.scored_zones) |->
                          [outcome.scored_zones[i] EXCEPT !.reasoning = ""]]]

WarningApartFromAlternatives(risk_warning) ==
    IF risk_warning = None THEN None
    ELSE Some([risk_warning[1] EXCEPT !.alternative_zones = << >>])

Permuted(p) == [k \in 1..Len(zones) |-> zones[p[k]]]

ZoneOrders ==
    {p \in [1..Len(zones) -> 1..Len(zones)] :
        \A a, b \in 1..Len(zones) : p[a] = p[b] => a = b}

\* What the claim compares per zone: the sub-scores, the total and the warning.
ScoresOf(scored) ==
    {[zone |-> scored[i].zone, total_score |-> scored[i].total_score,
      audience_match_score |-> scored[i].audience_match_score,
      temporal_alignment_score |-> scored[i].temporal_alignment_score,
      distance_score |-> scored[i].distance_score,
      dwell_time_score |-> scored[i].dwell_time_score,
      risk_warning |-> WarningApartFromAlternatives(scored[i].risk_warning)] :
        i \in 1..Len(scored)}

DistinctTotals(scored) ==
    \A i, j \in 1..Len(scored) :
        scored[i].total_score = scored[j].total_score => i = j

\* C24: per-zone scoring is order-independent and joins before aggregation:
\* the sort and the alternatives pass start only when every zone has been
\* scored; over any permutation of the zone list every zone gets the same
\* sub-scores, total and warning; and when the totals are pairwise distinct
\* the complete output of the permuted run is identical.
C24_OrderIndependent ==
    /\ pc \in {"alternatives", "returned"} => Len(scored_zones) = Len(zones)
    /\ ListReturned =>
           \A p \in ZoneOrders :
               LET other == score_zones(Permuted(p), event_data)
               IN  /\ ~other.raised
                   /\ ScoresOf(other.value) = ScoresOf(scored_zones)
                   /\ DistinctTotals(scored_zones) => other.value = scored_zones

\* Three zones with pairwise distinct totals, returned in the reverse of
\* their input order.
C24_Witness ==
    /\ ListReturned
    /\ Len(zones) = 3
    /\ DistinctTotals(scored_zones)
    /\ \A i \in 1..3 : scored_zones[i].zone = zones[4 - i]

\* C27: every ZoneScore score_zones produces has temporal_alignment_score in
\* {5, 15, 20, 30}, distance_score in {2, 5, 10, 15, 20} and dwell_time_score
\* in {2, 4, 6, 8, 10}; so its total_score is at least 9.0 and its temporal
\* score is never 0.  (Scores are in tenths of a point.)
C27_ScoreRanges ==
    \A i \in 1..Len(scored_zones) :
        /\ scored_zones[i].temporal_alignment_score \in {50, 150, 200, 300}
        /\ scored_zones[i].distance_score \in {20, 50, 100, 150, 200}
        /\ scored_zones[i].dwell_time_score \in {20, 40, 60, 80, 100}
        /\ scored_zones[i].total_score >= 90
        /\ scored_zones[i].temporal_alignment_score # 0

\* A returned list with a zone more than ten miles away (2 points) whose
\* window matches the weekday only (20 points), next to a zone within a mile
\* (20 points) whose window matches day and hour (30 points).
C27_Witness ==
    /\ ListReturned
    /\ \E i \in 1..Len(scored_zones) :
           /\ scored_zones[i].distance_score = 20
           /\ scored_zones[i].temporal_alignment_score = 200
           /\ scored_zones[i].dwell_time_score = 60
    /\ \E i \in 1..Len(scored_zones) :
           /\ scored_zones[i].distance_score = 200
           /\ scored_zones[i].temporal_alignment_score = 300

-----------------------------------------------------------------------------
(* Properties of the routes, checked under SpecRoutes *)

\* C22: POST /top with limit N returns the first min(N, Z) elements, in the
\* same order, of the list POST /score returns for the same event and the
\* same Z zones; the elements are those computed over all Z zones.
C22_TopIsPrefix ==
    (Len(ret) = 2 /\ ~ret[1].raised) =>
        /\ ~ret[2].raised
        /\ Len(ret[1].value) = Len(zones)
        /\ ret[2].value =
               SubSeq(ret[1].value, 1,
                      IF args.limit < Len(zones) THEN args.limit ELSE Len(zones))

\* Three zones scored, two of them returned by POST /top.
C22_Witness ==
    /\ Len(ret) = 2
    /\ ~ret[1].raised
    /\ Len(ret[1].value) = 3
    /\ args.limit = 2
    /\ Len(ret[2].value) = 2
    /\ ret[2].value[1].total_score > ret[2].value[2].total_score
    /\ ret[2].value[1].zone_id # zones[1].id

-----------------------------------------------------------------------------
(* Properties of the timing rule of risk detection, checked under SpecTiming *)

\* No window of the zone matches the event's weekday or its hour.
NoWindowMatches ==
    \A k \in 1..Len(args.zone.timing_windows.optimal) :
        LET window == args.zone.timing_windows.optimal[k]
        IN  /\ DateWeekday(args.event_date) \notin Range(window.days)
            /\ \A i \in 1..Len(window.times) :
                   ~RangeMatches(window.times[i], EventHour(args.event_time))

\* The timing rule is the only one the arguments can trigger: detection
\* enters it exactly when it does not return None.
TimingRuleTriggered == ret[2] # Returned(None)

-----------------------------------------------------------------------------
(* Properties of RateLimiter, checked under SpecRateLimiter *)

\* The calls for a key that were answered allowed = true at a time within
\* (t - window_seconds, t].
AllowedWithin(key, t) ==
    {i \in 1..Len(answers) :
        /\ answers[i].key = key
        /\ answers[i].allowed
        /\ answers[i].time > t - args.window_seconds
        /\ answers[i].time <= t}

\* C30: for every key, the calls answered allowed = true whose timestamps
\* lie in an interval (t - window_seconds, t] never number more than
\* max_requests, and a call answered allowed = false adds no entry to the
\* key's request log.  (The number is largest for an interval that ends at
\* the time of a call, so t ranges over the times of the calls.)
C30_SlidingWindow ==
    /\ \A key \in KeyPool :
           \A j \in 1..Len(answers) :
               Cardinality(AllowedWithin(key, answers[j].time)) <= args.max_requests
    /\ \A j \in 1..Len(answers) :
           ~answers[j].allowed =>
               /\ Len(answers[j].log_after) <= Len(answers[j].log_before)
               /\ Range(answers[j].log_after) \subseteq Range(answers[j].log_before)

\* The same for the windows of at most 24 hours, which the cleanup of
\* lines 29-41 leaves whole.
SlidingWindowWithinADay ==
    args.window_seconds <= 86400 => C30_SlidingWindow

-----------------------------------------------------------------------------
(* Properties of _generate_reasoning, checked under SpecGenerateReasoning *)

\* The texts of the clauses of one kind in a reasoning.
ClausesOf(reasoning, kind) ==
    {reasoning.reasons[i].text :
        i \in {k \in 1..Len(reasoning.reasons) : reasoning.reasons[k].kind = kind}}

\* C25: the reasoning starts with the zone name and has at least one clause;
\* it has an audience clause iff the unrounded audience match is >= 24
\* ("excellent" iff >= 32, else "good"), a distance clause iff the distance
\* is below 3 miles ("very close" iff below 1, else "walkable"), a dwell
\* clause iff dwell_time_seconds >= 30 ("high" iff >= 45, else "moderate");
\* generation never raises.
C25_ReasoningClauses ==
    ret # None =>
        LET reasoning == ret[1].value
            audience == args.audience_match
        IN  /\ ~ret[1].raised
            /\ reasoning.name = args.zone.name
            /\ Len(reasoning.reasons) >= 1
            /\ ClausesOf(reasoning, "audience") =
                   (IF audience.n >= 32 * audience.d
                    THEN {"excellent audience match"}
                    ELSE IF audience.n >= 24 * audience.d
                    THEN {"good audience alignment"} ELSE {})
            /\ ClausesOf(reasoning, "distance") =
                   (IF args.distance_miles < 1000000 THEN {"very close to venue"}
                    ELSE IF args.distance_miles < 3000000 THEN {"walkable distance"}
                    ELSE {})
            /\ ClausesOf(reasoning, "dwell") =
                   (IF args.dwell_time_seconds >= 45 THEN {"high dwell time"}
                    ELSE IF args.dwell_time_seconds >= 30 THEN {"moderate dwell time"}
                    ELSE {})

\* Exactly 3 miles, 24 points and 30 seconds: a "good" audience clause, a
\* "moderate" dwell clause and no distance clause.
C25_Witness ==
    /\ ret # None
    /\ args.distance_miles = 3000000
    /\ args.audience_match = [n |-> 24, d |-> 1]
    /\ args.dwell_time_seconds = 30
    /\ ClausesOf(ret[1].value, "distance") = {}
    /\ ClausesOf(ret[1].value, "audience") = {"good audience alignment"}
    /\ ClausesOf(ret[1].value, "dwell") = {"moderate dwell time"}

=============================================================================
